---------------------------- MODULE Spec2Model ----------------------------
(***************************************************************************)
(* State-machine model of Development/predict_kai.py:                      *)
(*   - amex_metric      (the weighted-Gini / top-4% capture metric),       *)
(*   - preprocess       (sort, fillna, drop denylist, one-hot encode),     *)
(*   - transpose_data   (group by customer, left-pad to 13 steps),         *)
(*   - the module-level script (fit stage, transform stage, training).     *)
(*                                                                         *)
(* Floating point values are modelled as exact extended rationals          *)
(* (finite n/d, +inf, -inf, nan) with numpy's division semantics: a        *)
(* division by zero yields inf or nan, it does not raise.                  *)
(***************************************************************************)
EXTENDS Integers, Sequences, FiniteSets, TLC

VARIABLES
    \* ---- amex_metric (lines 62-94) ----
    y_true,      \* sequence of 0/1 labels
    y_pred,      \* sequence of predicted scores (same length)
    tie,         \* how this build of np.argsort places equal keys
    indices,     \* np.argsort(y_pred)[::-1] of the last call
    score,       \* value returned by the last call
    base,        \* value returned by the first call
    outcome,     \* "none", "returned" or "raised" for the last call
    rescaled,    \* TRUE once y_pred was rescaled by an increasing map
    \* ---- transpose_data (lines 135-150) ----
    history,     \* per customer: how many observations and of which shape
    series,      \* the argument: one feature's rows, sorted by customer, date
    groups,      \* customers the groupby iterator has still to yield
    res_list,    \* rows built so far
    frame,       \* the returned DataFrame, id -> series_0..series_12
    t_outcome,   \* "running", "returned" or "raised"
    \* ---- preprocess (lines 110-123) ----
    given,       \* the raw table as it was when preprocess was called
    raw,         \* the caller's table (sorted and filled in place)
    clean,       \* the returned table
    p_outcome,   \* "none", "returned" or "raised"
    \* ---- the script (lines 163-248) ----
    USE_PICKLE,  \* module switch, line 19
    PARAM_SEARCH,\* module switch, line 20
    pc,          \* the statement the script is at
    dataset,     \* which train data this run has read
    pickle_file, \* model_score.pickle
    model_dict,  \* feature -> fitted projection
    cols,        \* columns the running for loop has still to visit
    col,         \* the loop variable
    t_data,      \* the module-level t_data of the fit loop
    comp_dict,   \* PA_<feature> -> how the column was computed
    fits,        \* every fit of a StandardScaler or a PCA executed so far
    param        \* hyper-parameters used for the final training

metricVars == <<y_true, y_pred, tie, indices, score, base, outcome, rescaled>>
transposeVars == <<history, series, groups, res_list, frame, t_outcome>>
preprocessVars == <<given, raw, clean, p_outcome>>
scriptVars == <<USE_PICKLE, PARAM_SEARCH, pc, dataset, pickle_file, model_dict,
                cols, col, t_data, comp_dict, fits, param>>

vars == <<metricVars, transposeVars, preprocessVars, scriptVars>>

\* What a step of one part of the program leaves alone
notMetric == <<transposeVars, preprocessVars, scriptVars>>
notTranspose == <<metricVars, preprocessVars, scriptVars>>
notPreprocess == <<metricVars, transposeVars, scriptVars>>
notScript == <<metricVars, transposeVars, preprocessVars>>

-----------------------------------------------------------------------------
(* Bounds of the model *)

MaxN == 3          \* longest label / score array
MaxScore == 2      \* predicted scores are drawn from 0..MaxScore
MaxCustomers == 2  \* customers in one feature's series
MaxObs == 14       \* most observations of one customer (one more than 13)
MaxRows == 2       \* rows of the raw table given to preprocess

-----------------------------------------------------------------------------
(* Generic helpers *)

Range(s) == {s[i] : i \in DOMAIN s}

\* A sequence given by a rule, evaluated once and stored (an array)
Array(f) == f \o <<>>

RECURSIVE SumSeq(_)
SumSeq(s) == IF s = <<>> THEN 0 ELSE s[1] + SumSeq(Tail(s))

Reverse(s) == Array([i \in 1..Len(s) |-> s[Len(s) + 1 - i]])

Perms(n) == {p \in [1..n -> 1..n] : \A i, j \in 1..n : i # j => p[i] # p[j]}

Abs(x) == IF x < 0 THEN -x ELSE x

RECURSIVE GCD(_, _)
GCD(a, b) == IF b = 0 THEN a ELSE GCD(b, a % b)

-----------------------------------------------------------------------------
(* numpy float64 values, as exact extended rationals *)

NaN == [k |-> "nan", n |-> 0, d |-> 0]
Inf(s) == [k |-> "inf", n |-> s, d |-> 0]

Fin(n, d) ==
    LET sg == IF d < 0 THEN -1 ELSE 1
        g  == GCD(Abs(n), Abs(d))
    IN  [k |-> "fin", n |-> (sg * n) \div g, d |-> (sg * d) \div g]

Int2F(i) == Fin(i, 1)

Sign(a) == IF a.n > 0 THEN 1 ELSE IF a.n < 0 THEN -1 ELSE 0

FNeg(a) == IF a.k = "fin" THEN Fin(-a.n, a.d)
           ELSE IF a.k = "inf" THEN Inf(-a.n) ELSE NaN

FAdd(a, b) ==
    IF a.k = "nan" \/ b.k = "nan" THEN NaN
    ELSE IF a.k = "inf" /\ b.k = "inf" THEN (IF a.n = b.n THEN a ELSE NaN)
    ELSE IF a.k = "inf" THEN a
    ELSE IF b.k = "inf" THEN b
    ELSE Fin(a.n * b.d + b.n * a.d, a.d * b.d)

FSub(a, b) == FAdd(a, FNeg(b))

FMul(a, b) ==
    IF a.k = "nan" \/ b.k = "nan" THEN NaN
    ELSE IF a.k = "inf" \/ b.k = "inf"
         THEN (IF Sign(a) * Sign(b) = 0 THEN NaN ELSE Inf(Sign(a) * Sign(b)))
    ELSE Fin(a.n * b.n, a.d * b.d)

\* numpy true division: x/0 is +-inf, 0/0 is nan, with a RuntimeWarning only
FDiv(a, b) ==
    IF a.k = "nan" \/ b.k = "nan" THEN NaN
    ELSE IF a.k = "inf" THEN (IF b.k = "inf" THEN NaN
                              ELSE Inf(IF Sign(b) < 0 THEN -a.n ELSE a.n))
    ELSE IF b.k = "inf" THEN Int2F(0)
    ELSE IF b.n = 0 THEN (IF a.n = 0 THEN NaN ELSE Inf(Sign(a)))
    ELSE Fin(a.n * b.d, a.d * b.n)

\* a <= b on floats; every comparison with nan is False
FLeq(a, b) ==
    IF a.k = "nan" \/ b.k = "nan" THEN FALSE
    ELSE IF a.k = "inf" THEN (a.n < 0 \/ (b.k = "inf" /\ b.n > 0))
    ELSE IF b.k = "inf" THEN b.n > 0
    ELSE a.n * b.d <= b.n * a.d

RECURSIVE FSum(_)
FSum(s) == IF s = <<>> THEN Int2F(0) ELSE FAdd(s[1], FSum(Tail(s)))

\* ndarray.cumsum()
RECURSIVE FCumSum(_)
FCumSum(s) ==
    IF s = <<>> THEN <<>>
    ELSE LET n == Len(s)
             c == FCumSum(SubSeq(s, 1, n - 1))
         IN  Append(c, IF n = 1 THEN s[1] ELSE FAdd(c[n - 1], s[n]))

-----------------------------------------------------------------------------
(* amex_metric *)

\* np.argsort(y_pred): a permutation of the positions that sorts the scores
\* ascending.  kind="quicksort" is not a stable sort, so where equal scores
\* land is decided by the build: tb[i] is the place the build gives position
\* i among the others (tb = identity is what a stable sort does).
argsort(p, tb) ==
    LET n == Len(p)
        before(i, j) == p[i] < p[j] \/ (p[i] = p[j] /\ tb[i] < tb[j])
        rank(i) == 1 + Cardinality({j \in 1..n : before(j, i)})
    IN  Array([r \in 1..n |-> CHOOSE i \in 1..n : rank(i) = r])

\* The outcomes argsort can have on p: every placement that is ascending
Placements(p) ==
    {q \in Perms(Len(p)) : \A i, j \in 1..Len(p) : p[i] < p[j] => q[i] < q[j]}

\* Mutant: the count of positives is guarded against zero
n_pos_guarded(t) == IF SumSeq(t) = 0 THEN 1 ELSE SumSeq(t)

\* n_pos = y_true.sum()
n_pos(t) == SumSeq(t)

\* n_neg = y_true.shape[0] - n_pos
n_neg(t) == Len(t) - n_pos(t)

\* Mutant: the [::-1] is forgotten, the scores are sorted ascending
sort_ascending(p, tb) == argsort(p, tb)

\* indices = np.argsort(y_pred)[::-1]
sort_indices(p, tb) == Reverse(argsort(p, tb))

\* target = y_true[indices]
target(t, ix) == Array([i \in 1..Len(t) |-> t[ix[i]]])

\* weight = 20.0 - target * 19.0
weight(tg) == Array([i \in 1..Len(tg) |-> 20 - tg[i] * 19])

\* cum_norm_weight = (weight / weight.sum()).cumsum()
cum_norm_weight(w) ==
    LET ws == Int2F(SumSeq(w))
    IN  FCumSum(Array([i \in 1..Len(w) |-> FDiv(Int2F(w[i]), ws)]))

\* Mutant: the filter is applied to the sorted scores (the preds of line 73)
filter_on_preds(c, preds) ==
    Array([i \in 1..Len(c) |-> FLeq(Int2F(preds[i]), Fin(4, 100))])

\* four_pct_filter = cum_norm_weight <= 0.04
four_pct_filter(c, preds) == Array([i \in 1..Len(c) |-> FLeq(c[i], Fin(4, 100))])

\* d = target[four_pct_filter].sum() / n_pos
capture_rate(tg, f, np) ==
    FDiv(Int2F(SumSeq(Array([i \in 1..Len(tg) |-> IF f[i] THEN tg[i] ELSE 0]))),
         Int2F(np))

\* lorentz = (target / n_pos).cumsum()
lorentz(tg, np) ==
    FCumSum(Array([i \in 1..Len(tg) |-> FDiv(Int2F(tg[i]), Int2F(np))]))

\* gini = ((lorentz - cum_norm_weight) * weight).sum()
gini(l, c, w) ==
    FSum(Array([i \in 1..Len(w) |-> FMul(FSub(l[i], c[i]), Int2F(w[i]))]))

\* gini_max = 10 * n_neg * (1 - 19 / (n_pos + 20 * n_neg))
gini_max(np, nn) ==
    FMul(Int2F(10 * nn), FSub(Int2F(1), FDiv(Int2F(19), Int2F(np + 20 * nn))))

\* The body of amex_metric, lines 68-94
amex_metric(t, p, tb) ==
    LET np == n_pos(t)
        nn == n_neg(t)
        ix == sort_indices(p, tb)
        preds == Array([i \in 1..Len(p) |-> p[ix[i]]])
        tg == target(t, ix)
        w  == weight(tg)
        c  == cum_norm_weight(w)
        f  == four_pct_filter(c, preds)
        d  == capture_rate(tg, f, np)
        l  == lorentz(tg, np)
        g  == FDiv(gini(l, c, w), gini_max(np, nn))
    IN  FMul(Fin(1, 2), FAdd(g, d))

-----------------------------------------------------------------------------
(* Calls of amex_metric *)

NoScore == [k |-> "none", n |-> 0, d |-> 0]

\* Strictly increasing maps applied to the predicted scores
Rescalings == {"shift", "stretch", "cube"}

Rescale(f, x) ==
    CASE f = "shift"   -> x + 1
      [] f = "stretch" -> 2 * x - 3
      [] f = "cube"    -> x * x * x - 1

InitMetric ==
    /\ \E n \in 0..MaxN :
          /\ y_true \in [1..n -> {0, 1}]
          /\ y_pred \in [1..n -> 0..MaxScore]
          /\ tie \in Placements(y_pred)
    /\ indices = <<>>
    /\ score = NoScore
    /\ base = NoScore
    /\ outcome = "none"
    /\ rescaled = FALSE

\* score = amex_metric(y_true, y_pred): no statement of the function raises
\* on these inputs, so the call always returns
Evaluate ==
    /\ outcome = "none"
    /\ indices' = sort_indices(y_pred, tie)
    /\ score' = amex_metric(y_true, y_pred, tie)
    /\ base' = IF base = NoScore THEN score' ELSE base
    /\ outcome' = "returned"
    /\ UNCHANGED <<y_true, y_pred, tie, rescaled>>
    /\ UNCHANGED notMetric

\* The caller rescales the scores monotonically and is ready to call again
Rescaled(f) ==
    /\ outcome = "returned"
    /\ ~rescaled
    /\ y_pred' = [i \in 1..Len(y_pred) |-> Rescale(f, y_pred[i])]
    /\ rescaled' = TRUE
    /\ outcome' = "none"
    /\ UNCHANGED <<y_true, tie, indices, score, base>>
    /\ UNCHANGED notMetric

NextMetric ==
    \/ Evaluate
    \/ \E f \in Rescalings : Rescaled(f)

IdleMetric ==
    /\ y_true = <<>> /\ y_pred = <<>> /\ tie = <<>> /\ indices = <<>>
    /\ score = NoScore /\ base = NoScore
    /\ outcome = "idle" /\ rescaled = FALSE

-----------------------------------------------------------------------------
(* transpose_data *)

\* The fixed number of steps: the 13 of lines 141, 142 and 148
SeriesLen == 13

\* Shapes of a customer's observations: all distinct and tagged with the
\* customer, or all zero (what fillna leaves of missing values)
Shapes == {"ramp", "zero"}

\* The t-th observation (by date) of customer c
Observation(h, c, t) == IF h[c].shape = "ramp" THEN 100 * c + t ELSE 0

\* One feature's rows after preprocess: sorted by customer, then by date
RECURSIVE SeriesOf(_, _)
SeriesOf(h, c) ==
    IF c > MaxCustomers THEN <<>>
    ELSE [t \in 1..h[c].k |-> [customer_ID |-> c, value |-> Observation(h, c, t)]]
         \o SeriesOf(h, c + 1)

\* Keys of data.groupby("customer_ID"), in the ascending order it yields them
RECURSIVE SortedKeys(_)
SortedKeys(S) ==
    IF S = {} THEN <<>>
    ELSE LET m == CHOOSE x \in S : \A y \in S : x <= y
         IN  <<m>> \o SortedKeys(S \ {m})

GroupKeys(data) == SortedKeys({data[i].customer_ID : i \in DOMAIN data})

\* df.values of the group of cid: its rows in the order they have in data
group_values(data, cid) ==
    LET rows == SelectSeq(data, LAMBDA r : r.customer_ID = cid)
    IN  [i \in DOMAIN rows |-> rows[i].value]

\* [0] * n: the empty list when n <= 0
Zeros(n) == [i \in 1..n |-> 0]

\* Mutant: the zeros are appended instead of prepended
pad_right(df_val) ==
    IF Len(df_val) # SeriesLen THEN df_val \o Zeros(SeriesLen - Len(df_val))
    ELSE df_val

\* Mutant: a sequence longer than 13 is cut to its last 13 values
pad_truncate(df_val) ==
    IF Len(df_val) > SeriesLen
    THEN SubSeq(df_val, Len(df_val) - SeriesLen + 1, Len(df_val))
    ELSE Zeros(SeriesLen - Len(df_val)) \o df_val

\* if (df_len := len(df_val)) != 13: df_val = [0] * (13 - df_len) + df_val
pad(df_val) ==
    IF Len(df_val) # SeriesLen THEN Zeros(SeriesLen - Len(df_val)) \o df_val
    ELSE df_val

NoFrame == [ids |-> <<>>, rows |-> <<>>]

InitTranspose ==
    /\ history \in [1..MaxCustomers -> [k : 0..MaxObs, shape : Shapes]]
    /\ \A c \in 1..MaxCustomers : history[c].k = 0 => history[c].shape = "zero"
    /\ series = SeriesOf(history, 1)
    /\ groups = GroupKeys(series)
    /\ res_list = <<>>
    /\ frame = NoFrame
    /\ t_outcome = "running"

\* One iteration of the for loop, lines 139-143
GroupStep ==
    /\ t_outcome = "running"
    /\ groups # <<>>
    /\ LET cid == Head(groups)
           df_val == pad(group_values(series, cid))
       IN  res_list' = Append(res_list, <<cid>> \o df_val)
    /\ groups' = Tail(groups)
    /\ UNCHANGED <<history, series, frame, t_outcome>>
    /\ UNCHANGED notTranspose

\* pd.DataFrame(data=res_list, columns=["id", series_0..series_12])
\* .set_index("id"): 14 column names are passed, so the constructor raises
\* ValueError unless the widest row has exactly 14 entries
BuildFrame ==
    /\ t_outcome = "running"
    /\ groups = <<>>
    /\ IF \A i \in DOMAIN res_list : Len(res_list[i]) = 1 + SeriesLen
       THEN /\ frame' = [ids  |-> [i \in DOMAIN res_list |-> res_list[i][1]],
                         rows |-> [i \in DOMAIN res_list |-> Tail(res_list[i])]]
            /\ t_outcome' = "returned"
       ELSE /\ frame' = NoFrame
            /\ t_outcome' = "raised"
    /\ UNCHANGED <<history, series, groups, res_list>>
    /\ UNCHANGED notTranspose

NextTranspose == GroupStep \/ BuildFrame

IdleTranspose ==
    /\ history = <<>> /\ series = <<>> /\ groups = <<>> /\ res_list = <<>>
    /\ frame = NoFrame /\ t_outcome = "idle"

-----------------------------------------------------------------------------
(* preprocess *)

\* CFG.category_param, lines 44-50
category_param ==
    {"D_63", "D_64", "B_30", "B_38", "D_114", "D_116", "D_117", "D_120",
     "D_126", "D_66", "D_68"}

\* CFG.remove_param, lines 51-56
remove_param ==
    {"S_2", "D_73", "D_87", "D_88", "D_108", "D_110", "D_111", "B_39", "B_42"}

\* Numeric feature columns of the raw table that are in neither list
numeric_param == {"P_2", "B_1"}

\* A missing cell (NaN)
NA == -1

\* Which denylist columns the raw table holds: none, all, or some
PresentChoices ==
    {{}, remove_param, {"S_2"}, {"S_2", "D_73"},
     remove_param \ {"S_2"}, remove_param \ {"B_42"}}

RawColumns(present, cats) ==
    {"customer_ID"} \cup present \cup cats \cup numeric_param

\* The column sets of the raw tables: every categorical column and some of
\* the denylist, or the whole denylist and one categorical column missing
ColumnChoices ==
    {RawColumns(present, category_param) : present \in PresentChoices}
    \cup {RawColumns(remove_param, category_param \ {"D_68"})}

\* (customer, date) of a raw row: two customers, the first seen on two dates
Keys == {<<1, 1>>, <<1, 2>>, <<2, 1>>}
CatValues == {NA, 0, 1}
NumValues == {NA, 7}

\* A raw row: every categorical cell holds cat, every other feature cell num
RawRow(columns, cid, date, cat, num) ==
    [c \in columns |->
        IF c = "customer_ID" THEN cid
        ELSE IF c = "S_2" THEN date
        ELSE IF c \in category_param THEN cat
        ELSE num]

RawRows(columns) ==
    {RawRow(columns, key[1], key[2], cat, num) :
        key \in Keys, cat \in CatValues, num \in NumValues}

\* data.sort_values(["customer_ID", "S_2"], inplace=True): KeyError unless
\* both columns exist
can_sort(data) == {"customer_ID", "S_2"} \subseteq data.columns

sort_values(data) ==
    LET rows == data.rows
        n == Len(rows)
        less(i, j) ==
            \/ rows[i]["customer_ID"] < rows[j]["customer_ID"]
            \/ /\ rows[i]["customer_ID"] = rows[j]["customer_ID"]
               /\ \/ rows[i]["S_2"] < rows[j]["S_2"]
                  \/ (rows[i]["S_2"] = rows[j]["S_2"] /\ i < j)
        rank(i) == 1 + Cardinality({j \in 1..n : less(j, i)})
    IN  [data EXCEPT !.rows = [r \in 1..n |-> rows[CHOOSE i \in 1..n : rank(i) = r]]]

\* Mutant: only the non-categorical columns are filled
fillna_numeric(data) ==
    [data EXCEPT !.rows = [i \in DOMAIN data.rows |->
        [c \in data.columns |->
            IF data.rows[i][c] = NA /\ c \notin category_param THEN 0
            ELSE data.rows[i][c]]]]

\* data.fillna(0, inplace=True)
fillna(data) ==
    [data EXCEPT !.rows = [i \in DOMAIN data.rows |->
        [c \in data.columns |-> IF data.rows[i][c] = NA THEN 0 ELSE data.rows[i][c]]]]

\* if len(set(CFG.remove_param) & set(data.columns)) != 0
must_drop(data) == remove_param \cap data.columns # {}

\* data.drop(CFG.remove_param, axis=1): KeyError unless every label exists
can_drop(data) == remove_param \subseteq data.columns

drop(data) ==
    [columns |-> data.columns \ remove_param,
     rows |-> [i \in DOMAIN data.rows |->
                 [c \in data.columns \ remove_param |-> data.rows[i][c]]]]

\* pd.get_dummies(data, columns=CFG.category_param): KeyError unless every
\* listed column exists
can_encode(data) == category_param \subseteq data.columns

\* One indicator column <<c, v>> ("c_v") per categorical column c and value
\* v found in it; a NaN cell is no value (dummy_na=False)
dummy_columns(data) ==
    {x \in {<<c, data.rows[i][c]>> : c \in category_param, i \in DOMAIN data.rows} :
        x[2] # NA}

\* get_dummies followed by .set_index("customer_ID", drop=True)
encode_and_index(data) ==
    LET kept == data.columns \ (category_param \cup {"customer_ID"})
        dc == dummy_columns(data)
    IN  [index   |-> [i \in DOMAIN data.rows |-> data.rows[i]["customer_ID"]],
         columns |-> kept,
         dummy_columns |-> dc,
         rows    |-> [i \in DOMAIN data.rows |-> [c \in kept |-> data.rows[i][c]]],
         dummies |-> [i \in DOMAIN data.rows |->
                        [x \in dc |-> IF data.rows[i][x[1]] = x[2] THEN 1 ELSE 0]]]

NoTable == [index |-> <<>>, columns |-> {}, dummy_columns |-> {},
            rows |-> <<>>, dummies |-> <<>>]

InitPreprocess ==
    /\ \E columns \in ColumnChoices, n \in 0..MaxRows :
          raw \in [columns : {columns}, rows : [1..n -> RawRows(columns)]]
    /\ given = raw
    /\ clean = NoTable
    /\ p_outcome = "none"

\* The sort raises: nothing was changed
PreprocessSortFails ==
    /\ p_outcome = "none"
    /\ ~can_sort(raw)
    /\ p_outcome' = "raised"
    /\ UNCHANGED <<given, raw, clean>>
    /\ UNCHANGED notPreprocess

\* The drop raises: the caller's table is already sorted and filled in place
PreprocessDropFails ==
    /\ p_outcome = "none"
    /\ can_sort(raw)
    /\ must_drop(fillna(sort_values(raw)))
    /\ ~can_drop(fillna(sort_values(raw)))
    /\ raw' = fillna(sort_values(raw))
    /\ p_outcome' = "raised"
    /\ UNCHANGED <<given, clean>>
    /\ UNCHANGED notPreprocess

\* get_dummies raises
PreprocessEncodeFails ==
    /\ p_outcome = "none"
    /\ can_sort(raw)
    /\ LET filled == fillna(sort_values(raw))
           data == IF must_drop(filled) THEN drop(filled) ELSE filled
       IN  /\ must_drop(filled) => can_drop(filled)
           /\ ~can_encode(data)
           /\ raw' = filled
    /\ p_outcome' = "raised"
    /\ UNCHANGED <<given, clean>>
    /\ UNCHANGED notPreprocess

\* The whole of preprocess, lines 112-123, when no statement raises
PreprocessReturns ==
    /\ p_outcome = "none"
    /\ can_sort(raw)
    /\ LET filled == fillna(sort_values(raw))
           data == IF must_drop(filled) THEN drop(filled) ELSE filled
       IN  /\ must_drop(filled) => can_drop(filled)
           /\ can_encode(data)
           /\ raw' = filled
           /\ clean' = encode_and_index(data)
    /\ p_outcome' = "returned"
    /\ UNCHANGED given
    /\ UNCHANGED notPreprocess

NextPreprocess ==
    \/ PreprocessSortFails
    \/ PreprocessDropFails
    \/ PreprocessEncodeFails
    \/ PreprocessReturns

IdlePreprocess ==
    /\ given = [columns |-> {}, rows |-> <<>>] /\ raw = given
    /\ clean = NoTable /\ p_outcome = "idle"

-----------------------------------------------------------------------------
(* The script: fit stage, transform stage, training (lines 163-248) *)

\* train_data.columns, in the order the for loops visit them
TrainColumns == <<"P_2", "B_1", "D_63_0">>

\* The train data a run can have read
Datasets == {"this_run", "earlier_run"}

EmptyDict == [x \in {} |-> 0]
NoData == [feature |-> "none", data |-> "none"]

\* transpose_data(train_data[c]) of the running script: the 13-step
\* sequences of feature c
transposed(c, ds) == [feature |-> c, data |-> ds]

\* create_model(data): a fresh StandardScaler and a fresh PCA are fitted on
\* data; only the PCA is returned, the scaler is a local that is dropped
create_model(data) == [pca |-> data]

create_model_fits(data) ==
    {[what |-> "StandardScaler", stage |-> "fit", on |-> data],
     [what |-> "PCA", stage |-> "fit", on |-> data]}

\* Mutant: the transform loop reuses the t_data left by the fit loop
transform_input_stale(c, ds, stale) == stale

\* The data the transform loop standardizes and projects for column c:
\* transpose_data(train_data[col]), line 187
transform_input(c, ds, stale) == transposed(c, ds)

\* model_score.pickle is written by the fit stage of an earlier run only
\* (lines 175-177): it holds one model per column of that run
PickleOf(columns, ds) ==
    [exists |-> TRUE,
     model_dict |-> [c \in columns |-> create_model(transposed(c, ds))]]

NoPickle == [exists |-> FALSE, model_dict |-> EmptyDict]

InitScript ==
    /\ USE_PICKLE \in BOOLEAN
    /\ PARAM_SEARCH \in BOOLEAN
    /\ dataset \in Datasets
    /\ pickle_file \in {NoPickle} \cup
           {PickleOf(cs, ds) : cs \in {Range(TrainColumns), Range(Tail(TrainColumns))},
                               ds \in Datasets}
    /\ pc = "models"
    /\ model_dict = EmptyDict
    /\ cols = <<>>
    /\ col = "none"
    /\ t_data = NoData
    /\ comp_dict = EmptyDict
    /\ fits = {}
    /\ param = "none"

\* case True: open("model_score.pickle", "rb") raises FileNotFoundError
LoadFails ==
    /\ pc = "models" /\ USE_PICKLE /\ ~pickle_file.exists
    /\ pc' = "crashed"
    /\ UNCHANGED <<USE_PICKLE, PARAM_SEARCH, dataset, pickle_file, model_dict,
                   cols, col, t_data, comp_dict, fits, param>>
    /\ UNCHANGED notScript

\* case True: model_dict = pickle.load(f), lines 164-167
LoadPickle ==
    /\ pc = "models" /\ USE_PICKLE /\ pickle_file.exists
    /\ model_dict' = pickle_file.model_dict
    /\ cols' = TrainColumns
    /\ pc' = "transform"
    /\ UNCHANGED <<USE_PICKLE, PARAM_SEARCH, dataset, pickle_file,
                   col, t_data, comp_dict, fits, param>>
    /\ UNCHANGED notScript

\* case False: model_dict = {}, lines 168-171
BeginFit ==
    /\ pc = "models" /\ ~USE_PICKLE
    /\ model_dict' = EmptyDict
    /\ cols' = TrainColumns
    /\ pc' = "fit"
    /\ UNCHANGED <<USE_PICKLE, PARAM_SEARCH, dataset, pickle_file,
                   col, t_data, comp_dict, fits, param>>
    /\ UNCHANGED notScript

\* One iteration of the fit loop, lines 171-173
FitStep ==
    /\ pc = "fit" /\ cols # <<>>
    /\ col' = Head(cols)
    /\ t_data' = transposed(col', dataset)
    /\ model_dict' = (col' :> create_model(t_data')) @@ model_dict
    /\ fits' = fits \cup create_model_fits(t_data')
    /\ cols' = Tail(cols)
    /\ UNCHANGED <<USE_PICKLE, PARAM_SEARCH, dataset, pickle_file, pc,
                   comp_dict, param>>
    /\ UNCHANGED notScript

\* pickle.dump after the fit loop, lines 175-177
DumpPickle ==
    /\ pc = "fit" /\ cols = <<>>
    /\ pickle_file' = [exists |-> TRUE, model_dict |-> model_dict]
    /\ cols' = TrainColumns
    /\ pc' = "transform"
    /\ UNCHANGED <<USE_PICKLE, PARAM_SEARCH, dataset, model_dict,
                   col, t_data, comp_dict, fits, param>>
    /\ UNCHANGED notScript

\* model_dict[col] raises KeyError: the pickled models lack this column
TransformFails ==
    /\ pc = "transform" /\ cols # <<>>
    /\ Head(cols) \notin DOMAIN model_dict
    /\ col' = Head(cols)
    /\ pc' = "crashed"
    /\ UNCHANGED <<USE_PICKLE, PARAM_SEARCH, dataset, pickle_file, model_dict,
                   cols, t_data, comp_dict, fits, param>>
    /\ UNCHANGED notScript

\* One iteration of the transform loop, lines 184-189: a new StandardScaler
\* is fitted on the column's sequences (ss.fit_transform), and the result is
\* projected with model_dict[col]
TransformStep ==
    /\ pc = "transform" /\ cols # <<>>
    /\ Head(cols) \in DOMAIN model_dict
    /\ col' = Head(cols)
    /\ LET input == transform_input(col', dataset, t_data)
       IN  /\ fits' = fits \cup
                  {[what |-> "StandardScaler", stage |-> "transform", on |-> input]}
           /\ comp_dict' = (col' :> [model  |-> model_dict[col'],
                                     scaler |-> input,
                                     input  |-> input]) @@ comp_dict
    /\ cols' = Tail(cols)
    /\ UNCHANGED <<USE_PICKLE, PARAM_SEARCH, dataset, pickle_file, model_dict,
                   pc, t_data, param>>
    /\ UNCHANGED notScript

\* comp_df, train_test_split and the two lgb.Dataset, lines 191-203
Split ==
    /\ pc = "transform" /\ cols = <<>>
    /\ pc' = "params"
    /\ UNCHANGED <<USE_PICKLE, PARAM_SEARCH, dataset, pickle_file, model_dict,
                   cols, col, t_data, comp_dict, fits, param>>
    /\ UNCHANGED notScript

\* case True: LightGBMTunerCV, lines 206-219
Search ==
    /\ pc = "params" /\ PARAM_SEARCH
    /\ param' = "tuner.best_params"
    /\ pc' = "train"
    /\ UNCHANGED <<USE_PICKLE, PARAM_SEARCH, dataset, pickle_file, model_dict,
                   cols, col, t_data, comp_dict, fits>>
    /\ UNCHANGED notScript

\* case False: the fixed parameters, lines 220-232
Fallback ==
    /\ pc = "params" /\ ~PARAM_SEARCH
    /\ param' = "fixed"
    /\ pc' = "train"
    /\ UNCHANGED <<USE_PICKLE, PARAM_SEARCH, dataset, pickle_file, model_dict,
                   cols, col, t_data, comp_dict, fits>>
    /\ UNCHANGED notScript

\* lgb.train, lines 234-244
Train ==
    /\ pc = "train"
    /\ pc' = "evaluate"
    /\ UNCHANGED <<USE_PICKLE, PARAM_SEARCH, dataset, pickle_file, model_dict,
                   cols, col, t_data, comp_dict, fits, param>>
    /\ UNCHANGED notScript

\* model.predict, amex_metric and the plots, lines 246-252
Report ==
    /\ pc = "evaluate"
    /\ pc' = "done"
    /\ UNCHANGED <<USE_PICKLE, PARAM_SEARCH, dataset, pickle_file, model_dict,
                   cols, col, t_data, comp_dict, fits, param>>
    /\ UNCHANGED notScript

NextScript ==
    \/ LoadFails \/ LoadPickle \/ BeginFit \/ FitStep \/ DumpPickle
    \/ TransformFails \/ TransformStep \/ Split
    \/ Search \/ Fallback \/ Train \/ Report

IdleScript ==
    /\ USE_PICKLE = FALSE /\ PARAM_SEARCH = FALSE /\ dataset = "none"
    /\ pickle_file = NoPickle /\ pc = "idle" /\ model_dict = EmptyDict
    /\ cols = <<>> /\ col = "none" /\ t_data = NoData
    /\ comp_dict = EmptyDict /\ fits = {} /\ param = "none"

-----------------------------------------------------------------------------
(* Specifications: one per part of the program; the other parts stay idle *)

MetricInit == InitMetric /\ IdleTranspose /\ IdlePreprocess /\ IdleScript
SpecMetric == MetricInit /\ [][NextMetric]_vars

TransposeInit == InitTranspose /\ IdleMetric /\ IdlePreprocess /\ IdleScript
SpecTranspose == TransposeInit /\ [][NextTranspose]_vars

PreprocessInit == InitPreprocess /\ IdleMetric /\ IdleTranspose /\ IdleScript
SpecPreprocess == PreprocessInit /\ [][NextPreprocess]_vars

ScriptInit == InitScript /\ IdleMetric /\ IdleTranspose /\ IdlePreprocess
SpecScript == ScriptInit /\ [][NextScript]_vars

\* The whole program: any one of its parts runs
Init == MetricInit \/ TransposeInit \/ PreprocessInit \/ ScriptInit
Next == NextMetric \/ NextTranspose \/ NextPreprocess \/ NextScript
Spec == Init /\ [][Next]_vars

-----------------------------------------------------------------------------
(* Properties of amex_metric, checked under SpecMetric *)

\* Every positive has a strictly higher score than every negative
Separated(t, p) ==
    \A i, j \in 1..Len(t) : (t[i] = 1 /\ t[j] = 0) => p[i] > p[j]

\* The sorted target holds all positives before all negatives
PositivesFirst(t, ix) ==
    \A a, b \in 1..Len(ix) : a < b => t[ix[a]] >= t[ix[b]]

BothClasses(t) == (\E i \in 1..Len(t) : t[i] = 1) /\ (\E i \in 1..Len(t) : t[i] = 0)

NoPositive(t) == \A i \in 1..Len(t) : t[i] = 0

\* The place of record i in the sorted sequence
PlaceOf(ix, i) == CHOOSE a \in 1..Len(ix) : ix[a] = i

\* The other score vectors a call is compared with: one for every way of
\* ranking the labels of t.  Every ranking of n records is the ranking of a
\* score vector that is a permutation of 1..n, and exchanging the scores of
\* two records with the same label ranks the labels alike, so among these
\* the vectors that score equal labels in increasing order are kept.
OtherScores(t) ==
    {q \in Perms(Len(t)) :
        \A i, j \in 1..Len(t) : (i < j /\ t[i] = t[j]) => q[i] < q[j]}

\* C1: with both classes present, a call whose descending order places all
\* positives before all negatives returns a value that no other score
\* vector over the same y_true exceeds
C1_PerfectRankingIsMaximal ==
    (/\ outcome = "returned"
     /\ BothClasses(y_true)
     /\ Separated(y_true, y_pred) \/ PositivesFirst(y_true, indices))
    => \A q \in OtherScores(y_true) : FLeq(amex_metric(y_true, q, tie), score)

\* C1 witness: a perfect ranking of one positive and two negatives, where
\* the positive falls inside the top 4% and a worse ranking scores less
C1_Witness ==
    /\ outcome = "returned"
    /\ Len(y_true) = 3
    /\ SumSeq(y_true) = 1
    /\ Separated(y_true, y_pred)
    /\ score = Int2F(1)
    /\ \E q \in Perms(3) : amex_metric(y_true, q, tie) # score

\* C2: after the scores were rescaled by a strictly increasing map, the
\* call returns the very value the call on the original scores returned
C2_InvariantUnderRescaling ==
    (rescaled /\ outcome = "returned") => score = base

\* C2 witness: a second call, on rescaled scores that hold a tie and two
\* different values, returned a finite value
C2_Witness ==
    /\ rescaled
    /\ outcome = "returned"
    /\ score.k = "fin"
    /\ score.n # 0
    /\ \E i, j \in 1..Len(y_pred) : i # j /\ y_pred[i] = y_pred[j]
    /\ \E i, j \in 1..Len(y_pred) : y_pred[i] < y_pred[j]

\* C8 as stated: a call with no positive in y_true never returns
C8_RaisesWithoutPositives ==
    NoPositive(y_true) => outcome # "returned"

\* C8 amended: a call with no positive in y_true returns, and returns nan
C8_ReturnsNaNWithoutPositives ==
    (NoPositive(y_true) /\ outcome \notin {"none", "idle"})
    => (outcome = "returned" /\ score = NaN)

\* C8 witness: three negatives, the call returned nan
C8_Witness ==
    /\ Len(y_true) = 3
    /\ NoPositive(y_true)
    /\ outcome = "returned"
    /\ score = NaN

\* C9 as stated: records with equal score keep their original relative
\* order in the sorted sequence
C9_TiesKeepOriginalOrder ==
    outcome = "returned" =>
        \A i, j \in 1..Len(y_pred) :
            (i < j /\ y_pred[i] = y_pred[j]) => PlaceOf(indices, i) < PlaceOf(indices, j)

\* C9 amended: the sorted sequence is a permutation of the records in
\* non-increasing score order, and records with equal score come in the
\* reverse of the order np.argsort gave them (for a stable argsort: in
\* reverse original order)
C9_DescendingTiesReversed ==
    outcome = "returned" =>
        /\ Len(indices) = Len(y_pred)
        /\ \A i \in 1..Len(y_pred) : \E a \in 1..Len(indices) : indices[a] = i
        /\ \A a, b \in 1..Len(indices) :
              a < b => y_pred[indices[a]] >= y_pred[indices[b]]
        /\ \A i, j \in 1..Len(y_pred) :
              (i # j /\ y_pred[i] = y_pred[j] /\ tie[i] < tie[j])
              => PlaceOf(indices, j) < PlaceOf(indices, i)

\* C9 witness: a stable argsort, two records with equal score, and the
\* later one comes first in the sorted sequence
C9_Witness ==
    /\ outcome = "returned"
    /\ \A i, j \in 1..Len(y_pred) : i < j => tie[i] < tie[j]
    /\ \E i, j \in 1..Len(y_pred) :
          /\ i < j /\ y_pred[i] = y_pred[j]
          /\ PlaceOf(indices, j) < PlaceOf(indices, i)
    /\ \E i, j \in 1..Len(y_pred) : y_pred[i] < y_pred[j]

-----------------------------------------------------------------------------
(* Properties of transpose_data, checked under SpecTranspose *)

\* The step values of a built row (the row without its id)
Steps(row) == Tail(row)

\* C3 as stated: every row built holds exactly 13 step values
C3_EveryRowHas13Steps ==
    \A i \in DOMAIN res_list : Len(Steps(res_list[i])) = SeriesLen

\* C3 amended: the row of a customer with at most 13 observations holds
\* exactly 13 step values; the row of a customer with k > 13 observations
\* holds k step values, and then the DataFrame constructor raises
C3_RowLengths ==
    /\ \A i \in DOMAIN res_list :
          LET k == history[res_list[i][1]].k
          IN  Len(Steps(res_list[i])) = IF k <= SeriesLen THEN SeriesLen ELSE k
    /\ t_outcome = "raised" =>
          \E i \in DOMAIN res_list : history[res_list[i][1]].k > SeriesLen
    /\ t_outcome = "returned" =>
          /\ \A c \in DOMAIN history : history[c].k <= SeriesLen
          /\ \A i \in DOMAIN frame.rows : Len(frame.rows[i]) = SeriesLen

\* C3 witness: one customer with more than 13 observations, one with
\* fewer; both rows were built and the constructor raised
C3_Witness ==
    /\ t_outcome = "raised"
    /\ \E i, j \in DOMAIN res_list :
          /\ Len(Steps(res_list[i])) > SeriesLen
          /\ history[res_list[j][1]].k < SeriesLen
          /\ Len(Steps(res_list[j])) = SeriesLen

\* C4: the row of a customer with k observations, 1 <= k <= 13, is 13-k
\* zeros followed by the customer's own observations in date order; each
\* customer gets one row, and the returned frame holds these rows
C4_LeftPaddedInOrder ==
    /\ \A i \in DOMAIN res_list :
          LET c == res_list[i][1]
              k == history[c].k
              row == Steps(res_list[i])
          IN  (1 <= k /\ k <= SeriesLen) =>
                 /\ Len(row) = SeriesLen
                 /\ \A j \in 1..(SeriesLen - k) : row[j] = 0
                 /\ \A j \in 1..k : row[SeriesLen - k + j] = Observation(history, c, j)
    /\ \A i, j \in DOMAIN res_list : i # j => res_list[i][1] # res_list[j][1]
    /\ \A i \in DOMAIN res_list : history[res_list[i][1]].k >= 1
    /\ t_outcome = "returned" =>
          /\ Len(frame.ids) = Cardinality({c \in DOMAIN history : history[c].k >= 1})
          /\ \A i \in DOMAIN frame.ids :
                /\ frame.ids[i] = res_list[i][1]
                /\ frame.rows[i] = Steps(res_list[i])

\* C4 witness: a frame was returned that holds a customer with 3 distinct
\* observations and another customer with 13
C4_Witness ==
    /\ t_outcome = "returned"
    /\ \E i, j \in DOMAIN frame.ids :
          /\ history[frame.ids[i]] = [k |-> 3, shape |-> "ramp"]
          /\ frame.rows[i][SeriesLen - 3] = 0
          /\ frame.rows[i][SeriesLen] = Observation(history, frame.ids[i], 3)
          /\ history[frame.ids[j]] = [k |-> SeriesLen, shape |-> "ramp"]

-----------------------------------------------------------------------------
(* Properties of preprocess, checked under SpecPreprocess *)

\* A raw row in which every feature column is missing
AllMissing(row) ==
    \A c \in DOMAIN row \ {"customer_ID", "S_2"} : row[c] = NA

\* The raw row that became row i of the cleaned table
Origin(i) == sort_values(given).rows[i]

\* C5 as stated: the cleaned row of an all-missing raw row has every numeric
\* column 0 and every one-hot column 0
C5_MissingRowHasNoIndicator ==
    p_outcome = "returned" =>
        \A i \in DOMAIN clean.rows :
            AllMissing(Origin(i)) =>
                /\ \A c \in clean.columns : clean.rows[i][c] = 0
                /\ \A x \in clean.dummy_columns : clean.dummies[i][x] = 0

\* C5 amended: the cleaned row of an all-missing raw row has every numeric
\* column 0, and for every categorical column c the one-hot column c_0 is
\* generated and is 1 in that row; every other one-hot column is 0
C5_MissingRowIsCategoryZero ==
    p_outcome = "returned" =>
        \A i \in DOMAIN clean.rows :
            AllMissing(Origin(i)) =>
                /\ \A c \in clean.columns : clean.rows[i][c] = 0
                /\ \A c \in category_param :
                      /\ <<c, 0>> \in clean.dummy_columns
                      /\ clean.dummies[i][<<c, 0>>] = 1
                /\ \A x \in clean.dummy_columns :
                      x[2] # 0 => clean.dummies[i][x] = 0

\* C5 witness: preprocess returned a table with an all-missing row and
\* another row whose categorical cells hold the category 1
C5_Witness ==
    /\ p_outcome = "returned"
    /\ \E i, j \in DOMAIN clean.rows :
          /\ AllMissing(Origin(i))
          /\ clean.dummies[i][<<"D_63", 0>>] = 1
          /\ <<"D_63", 1>> \in clean.dummy_columns
          /\ clean.dummies[j][<<"D_63", 1>>] = 1

\* C10: whichever denylist columns the raw table holds (the customer and
\* categorical columns being there), preprocess returns, and the cleaned
\* table holds no denylist column and every other non-categorical column
C10_DenylistDroppedIfPresent ==
    (/\ p_outcome \notin {"none", "idle"}
     /\ category_param \cup {"customer_ID"} \subseteq given.columns)
    => /\ p_outcome = "returned"
       /\ clean.columns \cap remove_param = {}
       /\ given.columns \ (remove_param \cup category_param \cup {"customer_ID"})
             \subseteq clean.columns

-----------------------------------------------------------------------------
(* Properties of the script, checked under SpecScript *)

\* C6: standardizations and projections are fitted in the fit stage only
\* (and never when the models are loaded from the pickle), and each PA
\* column is standardized with the scale fitted together with its projection
C6_FittedOnceThenApplied ==
    /\ \A e \in fits : e.stage = "fit"
    /\ USE_PICKLE => fits = {}
    /\ \A c \in DOMAIN comp_dict : comp_dict[c].scaler = comp_dict[c].model.pca

\* C7: model_dict[c] was fitted from the sequences of feature c, and PA_c
\* is computed from the sequences of c, a scaler of c and the model of c
C7_ModelsAreFeatureSpecific ==
    /\ \A c \in DOMAIN model_dict : model_dict[c].pca.feature = c
    /\ \A c \in DOMAIN comp_dict :
          /\ comp_dict[c].model.pca.feature = c
          /\ comp_dict[c].scaler.feature = c
          /\ comp_dict[c].input.feature = c

\* C7 witness: a run that fitted its models and computed every PA column
C7_Witness ==
    /\ pc = "done"
    /\ ~USE_PICKLE
    /\ DOMAIN model_dict = Range(TrainColumns)
    /\ DOMAIN comp_dict = Range(TrainColumns)

=============================================================================
